---- MODULE Spec2Model ----
(***************************************************************************)
(* A model of fetch_data: the URL lister and its cache file                *)
(* (core.get_url_list, download.get_url_list), the download executor       *)
(* (core.download_urls and its per-task handler) and the orchestrator      *)
(* (core.download).                                                        *)
(*                                                                         *)
(* Strings are sequences of one-character strings, so that "\n".join,      *)
(* str.split, urlparse, sorted() and the csv conversions are computed the  *)
(* way Python computes them.                                                *)
(***************************************************************************)
EXTENDS Integers, Sequences, FiniteSets, TLC

\* ------------------------------------------------------------------ bounds

\* number of files the remote host can hold (named /a, /b, ...)
MaxFiles == 2

\* length of the longest URL list handed to download / download_urls
MaxUrls == 2

\* the longest string handed to commong_substring
MaxWord == 3

\* ----------------------------------------------------------------- strings

NL == "\n"

\* the characters of the model, in ascending code-point order
Alphabet ==
  <<NL, "*", "/", "0", ":", "a", "b", "c", "d", "f", "h", "p", "s", "t", "x">>

\* ord(c), up to an order-preserving renumbering
Code(c) == CHOOSE i \in 1..Len(Alphabet) : Alphabet[i] = c

\* s < t for Python strings: lexicographic by code point
RECURSIVE StrLess(_, _)
StrLess(s, t) ==
  IF t = <<>> THEN FALSE
  ELSE IF s = <<>> THEN TRUE
  ELSE IF Head(s) = Head(t) THEN StrLess(Tail(s), Tail(t))
  ELSE Code(Head(s)) < Code(Head(t))

\* insertion of x into an ascending list, after the elements equal to it
RECURSIVE Insert(_, _)
Insert(x, l) ==
  IF l = <<>> THEN <<x>>
  ELSE IF StrLess(x, Head(l)) THEN <<x>> \o l
  ELSE <<Head(l)>> \o Insert(x, Tail(l))

\* sorted(l): a new ascending list of the same elements
RECURSIVE sorted(_)
sorted(l) == IF l = <<>> THEN <<>> ELSE Insert(Head(l), sorted(Tail(l)))

IsSorted(l) == \A i \in 1..(Len(l) - 1) : ~StrLess(l[i + 1], l[i])

\* c in s, for a one-character c
Contains(s, c) == \E i \in 1..Len(s) : s[i] = c

\* s.startswith(p)
StartsWith(s, p) == Len(s) >= Len(p) /\ SubSeq(s, 1, Len(p)) = p

\* sep.join(l), sep one character
RECURSIVE Join(_, _)
Join(l, sep) ==
  IF l = <<>> THEN <<>>
  ELSE IF Len(l) = 1 THEN l[1]
  ELSE l[1] \o <<sep>> \o Join(Tail(l), sep)

\* s.split(sep), sep one character: always at least one piece
RECURSIVE Split(_, _)
Split(s, sep) ==
  IF ~Contains(s, sep) THEN <<s>>
  ELSE LET i == CHOOSE k \in 1..Len(s) :
                  s[k] = sep /\ \A j \in 1..(k - 1) : s[j] # sep
       IN <<SubSeq(s, 1, i - 1)>> \o Split(SubSeq(s, i + 1, Len(s)), sep)

\* ------------------------------------------------------------------- URLs

HTTPS == <<"h", "t", "t", "p", "s">>
HTTP == <<"h", "t", "t", "p">>
FTP == <<"f", "t", "p">>
SchemeSep == <<":", "/", "/">>
Host == <<"h">>

\* s[i:].startswith(p)
At(s, i, p) == i + Len(p) - 1 <= Len(s) /\ SubSeq(s, i, i + Len(p) - 1) = p

\* urlparse(url): scheme, netloc and path of scheme://netloc/path
urlparse(url) ==
  IF ~(\E i \in 1..Len(url) : At(url, i, SchemeSep))
  THEN [scheme |-> <<>>, netloc |-> <<>>, path |-> url]
  ELSE LET i == CHOOSE k \in 1..Len(url) :
                  /\ At(url, k, SchemeSep)
                  /\ \A j \in 1..(k - 1) : ~At(url, j, SchemeSep)
           rest == SubSeq(url, i + 3, Len(url))
           n == IF Contains(rest, "/")
                THEN (CHOOSE k \in 1..Len(rest) :
                        rest[k] = "/" /\ \A j \in 1..(k - 1) : rest[j] # "/") - 1
                ELSE Len(rest)
       IN [scheme |-> SubSeq(url, 1, i - 1),
           netloc |-> SubSeq(rest, 1, n),
           path |-> SubSeq(rest, n + 1, Len(rest))]

\* the files of the remote host, as host-relative paths
FileNames == <<"a", "b", "c", "d">>
RemoteFiles == {<<"/", FileNames[i]>> : i \in 1..MaxFiles}

\* what a directory listing can be: any files, in any order
RECURSIVE ListingsOf(_)
ListingsOf(S) ==
  {<<>>} \cup UNION {{<<f>> \o l : l \in ListingsOf(S \ {f})} : f \in S}
Listings == ListingsOf(RemoteFiles)

\* the wildcard patterns and the plain URL handed to the lister
HttpsPattern == HTTPS \o SchemeSep \o Host \o <<"/", "*">>
FtpPattern == FTP \o SchemeSep \o Host \o <<"/", "*">>
PlainUrl == HTTPS \o SchemeSep \o Host \o <<"/", "a">>
ListerUrls == {HttpsPattern, FtpPattern, PlainUrl}
\* patterns of the two other protocols: plain http, and sftp
HttpPattern == HTTP \o SchemeSep \o Host \o <<"/", "*">>
SftpPattern == <<"s">> \o FTP \o SchemeSep \o Host \o <<"/", "*">>
PrefixUrls == {HttpPattern, SftpPattern}
DlListerUrls == {HttpsPattern, FtpPattern}

\* ------------------------------------------------------------- file system

\* cache_path arguments, as path components; "{hash}" is the placeholder
HashedCachePath == <<"dest", "/", "{hash}">>
FixedCachePath == <<"dest", "/", "cache">>
\* cache_path=None of download.get_url_list
NoCachePath == <<>>
\* the cache_path arguments the calls are made with
CoreCachePathArgs == {HashedCachePath}
DlCachePathArgs == {NoCachePath}
TmpDir == <<"tmp", "/", "{md5}">>

\* md5 of a string: the digest is kept as a tagged copy of the string it was
\* computed from (no two URLs of the model collide)
make_hash_string(string) == [md5 |-> string]

\* a path on disk: its components and the digests substituted into them
PlainPath(parts) == [parts |-> parts, hash |-> <<>>]
\* cache_path.format(hash=make_hash_string(url))
FormatHash(cache_path, url) ==
  [parts |-> cache_path, hash |-> <<make_hash_string(url)>>]

\* the path core.get_url_list reads and writes
CoreCachePath(url, cache_path) ==
  IF \E i \in 1..Len(cache_path) : cache_path[i] = "{hash}"
  THEN FormatHash(cache_path, url)
  ELSE PlainPath(cache_path)

\* tempdir/md5(url)
get_cache_path(url) == [parts |-> TmpDir, hash |-> <<make_hash_string(url)>>]

\* the path download.get_url_list reads and writes
DlCachePath(url, cache_path) ==
  IF cache_path = NoCachePath THEN get_cache_path(url) ELSE PlainPath(cache_path)

\* path.is_file()
is_file(fsys, p) == p \in DOMAIN fsys

\* open(p, "w").write(content): the file holds content and nothing else
WriteFile(fsys, p, content) ==
  [q \in DOMAIN fsys \cup {p} |-> IF q = p THEN content ELSE fsys[q]]

\* ---------------------------------------------------------- remote listing

\* what fs.glob / fsspec.filesystem can raise
GlobErrors == {"AttributeError", "TypeError", "ClientResponseError", "OSError"}

\* what the remote does during one call of a lister: it serves its listing to
\* every fs.glob of the call, or the first fs.glob raises, or the first returns
\* and the second raises
RemoteRuns ==
  {[first |-> "ok", second |-> "ok", files |-> l] : l \in Listings}
    \cup {[first |-> e, second |-> "ok", files |-> <<>>] : e \in GlobErrors}
    \cup {[first |-> "ok", second |-> e, files |-> <<>>] : e \in GlobErrors}

\* f"{protocol}://{host}{f}" for f in flist
Prefixed(protocol, host, flist) ==
  [i \in 1..Len(flist) |-> protocol \o SchemeSep \o host \o flist[i]]

\* the list fs.glob(path) returns for a listing of host-relative paths: the http
\* filesystem globs on full URLs and returns full URLs, the others return the
\* paths on the host
fs_glob(protocol, host, listing) ==
  IF StartsWith(protocol, HTTP) THEN Prefixed(protocol, host, listing)
  ELSE listing

\* the outcome of one call of a lister
Returned(result, fsys, globs, wrote) ==
  [status |-> "returned", result |-> result, exc |-> "", files |-> fsys,
   globs |-> globs, wrote |-> wrote]
Raised(exc, fsys, globs) ==
  [status |-> "raised", result |-> <<>>, exc |-> exc, files |-> fsys,
   globs |-> globs, wrote |-> FALSE]

\* core.get_url_list, from the remote listing to the return
core_list_remote(url, use_cache, cp, fsys, run) ==
  LET purl == urlparse(url)
      protocol == purl.scheme
      host == purl.netloc
      first == fs_glob(protocol, host, run.files)
      again == ~StartsWith(protocol, HTTPS)
      flist == IF again THEN Prefixed(protocol, host, fs_glob(protocol, host, run.files))
               ELSE first
      after == IF use_cache THEN WriteFile(fsys, cp, Join(flist, NL)) ELSE fsys
  IN IF run.first = "AttributeError" THEN Raised("FileNotFoundError", fsys, 1)
     ELSE IF run.first = "TypeError" THEN Raised("KeyError", fsys, 1)
     ELSE IF run.first # "ok" THEN Raised(run.first, fsys, 1)
     ELSE IF again /\ run.second # "ok" THEN Raised(run.second, fsys, 2)
     ELSE Returned(sorted(flist), after, IF again THEN 2 ELSE 1, use_cache)

\* core.get_url_list without the test for a cache file: it always lists the remote
core_get_url_list_always_lists(url, use_cache, cache_path, fsys, run) ==
  IF ~Contains(url, "*") THEN Returned(<<url>>, fsys, 0, FALSE)
  ELSE core_list_remote(url, use_cache, CoreCachePath(url, cache_path), fsys, run)

\* core.get_url_list(url, use_cache, cache_path), on the file system fsys and
\* with the remote doing run
core_get_url_list(url, use_cache, cache_path, fsys, run) ==
  IF ~Contains(url, "*") THEN Returned(<<url>>, fsys, 0, FALSE)
  ELSE LET cp == CoreCachePath(url, cache_path)
       IN IF use_cache /\ is_file(fsys, cp)
          THEN Returned(sorted(Split(fsys[cp], NL)), fsys, 0, FALSE)
          ELSE core_list_remote(url, use_cache, cp, fsys, run)

\* ------------------------------------------------- download.get_url_list

\* Series(flist, dtype="str").to_csv(path, index=False): the header line "0",
\* then one line per element, each line ended by a newline
RECURSIVE CsvRows(_)
CsvRows(flist) ==
  IF flist = <<>> THEN <<>> ELSE Head(flist) \o <<NL>> \o CsvRows(Tail(flist))
to_csv(flist) == <<"0", NL>> \o CsvRows(flist)

\* the non-blank lines of a file (read_csv skips blank lines)
RECURSIVE NonBlank(_)
NonBlank(lines) ==
  IF lines = <<>> THEN <<>>
  ELSE IF Head(lines) = <<>> THEN NonBlank(Tail(lines))
  ELSE <<Head(lines)>> \o NonBlank(Tail(lines))

\* read_csv(path, index_col=False).iloc[:, 0].to_list(): the first non-blank
\* line is the header, the others are the values; a file with no line to take
\* the header from raises EmptyDataError
CsvLines(content) == NonBlank(Split(content, NL))
read_csv_ok(content) == CsvLines(content) # <<>>
read_csv(content) == Tail(CsvLines(content))

\* download.get_url_list, from the remote listing to the return
dl_list_remote(url, use_cache, raise_on_empty, cp, fsys, run) ==
  LET purl == urlparse(url)
      protocol == purl.scheme
      host == purl.netloc
      http == StartsWith(protocol, HTTP)
      flist == IF http THEN fs_glob(protocol, host, run.files)
               ELSE Prefixed(protocol, host, fs_glob(protocol, host, run.files))
      no_files == Len(flist) = 0
  IN IF http /\ run.first = "ClientResponseError"
     THEN (IF raise_on_empty THEN Raised("ValueError", fsys, 1)
           ELSE Returned(<<>>, fsys, 1, FALSE))
     ELSE IF run.first # "ok" THEN Raised(run.first, fsys, 1)
     ELSE IF no_files /\ raise_on_empty THEN Raised("ValueError", fsys, 1)
     ELSE IF no_files /\ ~use_cache THEN Returned(flist, fsys, 1, FALSE)
     ELSE Returned(sorted(flist), WriteFile(fsys, cp, to_csv(flist)), 1, TRUE)

\* download.get_url_list(url, cache_path, use_cache, raise_on_empty), on the file
\* system fsys and with the remote doing run (it has one fs.glob)
dl_get_url_list(url, cache_path, use_cache, raise_on_empty, fsys, run) ==
  LET cp == DlCachePath(url, cache_path)
  IN IF is_file(fsys, cp) /\ use_cache
     THEN (IF read_csv_ok(fsys[cp])
           THEN Returned(sorted(read_csv(fsys[cp])), fsys, 0, FALSE)
           ELSE Raised("EmptyDataError", fsys, 0))
     ELSE dl_list_remote(url, use_cache, raise_on_empty, cp, fsys, run)

\* -------------------------------------------------------- utils (core.download)

\* the inner loop of longest_substring_finder, from position j of string2
RECURSIVE FinderInner(_, _, _, _, _, _)
FinderInner(string1, string2, i, j, match, answer) ==
  IF j = Len(string2) THEN answer
  ELSE IF i + j < Len(string1) /\ string1[i + j + 1] = string2[j + 1]
  THEN FinderInner(string1, string2, i, j + 1, match \o <<string2[j + 1]>>, answer)
  ELSE FinderInner(string1, string2, i, j + 1, <<>>,
                   IF Len(match) > Len(answer) THEN match ELSE answer)

\* the outer loop of longest_substring_finder, from position i of string1. An
\* answer as long as string2 cannot be replaced (a match is a run of characters
\* of string2, and only a longer match replaces the answer): the test on its
\* length also has the answer of one pass evaluated before the next pass begins
RECURSIVE FinderOuter(_, _, _, _)
FinderOuter(string1, string2, i, answer) ==
  IF i = Len(string1) \/ Len(answer) = Len(string2) THEN answer
  ELSE FinderOuter(string1, string2, i + 1,
                   FinderInner(string1, string2, i, 0, <<>>, answer))

longest_substring_finder(string1, string2) == FinderOuter(string1, string2, 0, <<>>)

\* the loop of commong_substring over the items after the first
RECURSIVE CommonFold(_, _, _)
CommonFold(item0, input_list, i) ==
  IF i > Len(input_list) THEN item0
  ELSE CommonFold(longest_substring_finder(item0, input_list[i]), input_list, i + 1)

\* commong_substring(input_list) returns None: the list is empty, so that none of
\* the three branches of the function is taken
returns_none(input_list) ==
  ~(Len(input_list) = 2) /\ ~(Len(input_list) > 2) /\ ~(Len(input_list) = 1)

\* commong_substring(input_list): a string, or None
commong_substring(input_list) ==
  IF Len(input_list) = 2
  THEN [none |-> FALSE, str |-> longest_substring_finder(input_list[1], input_list[2])]
  ELSE IF Len(input_list) > 2
  THEN [none |-> FALSE,
        str |-> longest_substring_finder(
                  CommonFold(input_list[1], input_list, 2),
                  input_list[Len(input_list)])]
  ELSE IF Len(input_list) = 1 THEN [none |-> FALSE, str |-> input_list[1]]
  ELSE [none |-> TRUE, str |-> <<>>]

\* flatten_list on a list of paths
RECURSIVE flatten_list(_)
flatten_list(list_of_lists) ==
  IF Len(list_of_lists) = 0 THEN list_of_lists
  ELSE <<Head(list_of_lists)>> \o flatten_list(Tail(list_of_lists))

\* ------------------------------------------------------ core.download_urls

\* the largest pool download_urls accepts
NJobsMax == 8

\* the schemes of known_downloaders
KnownSchemes == {FTP, HTTP, HTTPS}

\* choose_downloader(url) with an empty login: TRUE when it raises ValueError
choose_downloader_raises(url) == urlparse(url).scheme \notin KnownSchemes

\* the keys a login mapping can hold
LoginKeys == {"username", "password", "cookies"}

\* the keywords the downloader classes take besides progressbar: HTTPDownloader
\* passes any keyword on to requests, FTPDownloader has a fixed signature
DownloaderTakes(cls, kwargs) ==
  cls = "HTTPDownloader" \/ kwargs \subseteq {"username", "password"}

\* choose_downloader(url, login, progress), login given by its keys: the
\* exception raised, or the class of the downloader built and its keywords
choose_downloader(url, login, progress) ==
  LET scheme == urlparse(url).scheme
      cls == IF scheme = FTP THEN "FTPDownloader" ELSE "HTTPDownloader"
      http == StartsWith(url, HTTP) /\ login # {}
      kwargs == IF ~http THEN login
                ELSE IF "cookies" \in login THEN {"cookies"}
                ELSE {"auth"}
      none == [exc |-> "", cls |-> "", kwargs |-> {}, progressbar |-> FALSE]
  IN IF scheme \notin KnownSchemes THEN [none EXCEPT !.exc = "ValueError"]
     ELSE IF http /\ "cookies" \notin login
                  /\ ~("username" \in login /\ "password" \in login)
     THEN [none EXCEPT !.exc = "KeyError"]
     ELSE IF ~DownloaderTakes(cls, kwargs) THEN [none EXCEPT !.exc = "TypeError"]
     ELSE [exc |-> "", cls |-> cls, kwargs |-> kwargs, progressbar |-> progress]

\* sub in s, for strings
Occurs(sub, s) ==
  \E i \in 0..(Len(s) - Len(sub)) : SubSeq(s, i + 1, i + Len(sub)) = sub

\* known_processors of choose_processor, in the order of the dict; the last
\* entry is None with the string "*", whose one character is its extension
known_processors ==
  << [processor |-> "Decompress",
      extensions |-> << <<".", "g", "z", "2">>, <<".", "g", "z">> >>],
     [processor |-> "Untar",
      extensions |-> << <<".", "t", "a", "r">>, <<".", "t", "g", "z">>,
                        <<".", "t", "a", "r", ".", "g", "z">> >>],
     [processor |-> "Unzip", extensions |-> << <<".", "z", "i", "p">> >>],
     [processor |-> "None", extensions |-> << <<"*">> >>] >>

\* the loops of choose_processor from entry k, extension e on
RECURSIVE ProcessorLoop(_, _, _, _)
ProcessorLoop(url, k, e, chosen) ==
  IF k > Len(known_processors) THEN chosen
  ELSE IF e > Len(known_processors[k].extensions)
  THEN ProcessorLoop(url, k + 1, 1, chosen)
  ELSE ProcessorLoop(url, k, e + 1,
                     IF Occurs(known_processors[k].extensions[e], url)
                     THEN known_processors[k].processor ELSE chosen)

\* choose_processor(url), url in lower case
choose_processor(url) == ProcessorLoop(url, 1, 1, "None")

\* the destination directory of the model
Dest == <<"d">>

\* what pooch.retrieve returns for a url: path/fname, fname = url.split("/")[-1]
LocalPath(url) ==
  LET parts == Split(url, "/") IN Dest \o <<"/">> \o parts[Len(parts)]

\* what one pooch.retrieve can do: return the path, raise an error, or be hit by
\* the user's interrupt
Outcomes == {"ok", "error", "interrupt"}

\* what a try block of the handler does: return, raise, or fall to the next block
Return(status, value, n) ==
  [kind |-> "return", status |-> status, value |-> value, exc |-> "", attempts |-> n]
Raise(exc, n) ==
  [kind |-> "raise", status |-> 1, value |-> <<>>, exc |-> exc, attempts |-> n]
FallThrough(n) ==
  [kind |-> "next", status |-> 1, value |-> <<>>, exc |-> "", attempts |-> n]

\* a first try block whose handler lets the interrupt pass on to the next block
Try1_swallows(url, o) ==
  IF o = "ok" THEN Return(0, LocalPath(url), 1)
  ELSE IF o = "interrupt" THEN FallThrough(1)
  ELSE Raise("Error", 1)

\* the first try block: only KeyboardInterrupt has a handler, which re-raises
\* it; any other exception leaves the function
Try1(url, o) ==
  IF o = "ok" THEN Return(0, LocalPath(url), 1)
  ELSE IF o = "interrupt" THEN Raise("KeyboardInterrupt", 1)
  ELSE Raise("Error", 1)

\* the second try block: progress bar off; the bare except swallows everything
Try2(url, o) ==
  IF o = "ok" THEN Return(0, LocalPath(url), 2) ELSE FallThrough(2)

\* the third try block: its finally returns (1, url) whatever pooch.retrieve did
Try3(url, o) == Return(1, url, 3)

\* pooch_retrieve_handling(kwargs): o[k] is what the k-th pooch.retrieve does
pooch_retrieve_handling(url, o) ==
  LET r1 == Try1(url, o[1])
      r2 == Try2(url, o[2])
  IN IF r1.kind # "next" THEN r1
     ELSE IF r2.kind # "next" THEN r2
     ELSE Try3(url, o[3])

\* a download_urls that builds no downloader before it starts the pool
download_urls_start_unchecked(urls, n_jobs) ==
  LET jobs == IF n_jobs < Len(urls) THEN n_jobs ELSE Len(urls)
  IN IF n_jobs = 0 THEN [exc |-> "ZeroDivisionError", jobs |-> 0]
     ELSE IF jobs = 1 THEN [exc |-> "", jobs |-> 1]
     ELSE IF 1 < jobs /\ jobs <= NJobsMax THEN [exc |-> "", jobs |-> jobs]
     ELSE [exc |-> "Exception", jobs |-> 0]

\* download_urls up to the start of the pool: the error it raises, or the number
\* of workers
download_urls_start(urls, n_jobs) ==
  LET jobs == IF n_jobs < Len(urls) THEN n_jobs ELSE Len(urls)
  IN IF n_jobs = 0 THEN [exc |-> "ZeroDivisionError", jobs |-> 0]
     ELSE IF \E i \in 1..Len(urls) : choose_downloader_raises(urls[i])
     THEN [exc |-> "ValueError", jobs |-> 0]
     ELSE IF jobs = 1 THEN [exc |-> "", jobs |-> 1]
     ELSE IF 1 < jobs /\ jobs <= NJobsMax THEN [exc |-> "", jobs |-> jobs]
     ELSE [exc |-> "Exception", jobs |-> 0]

\* failed / passed of download_urls
RECURSIVE Select(_, _)
Select(flist, o) ==
  IF flist = <<>> THEN <<>>
  ELSE (IF Head(flist).status = o THEN <<Head(flist).value>> ELSE <<>>)
         \o Select(Tail(flist), o)
passed(flist) == Select(flist, 0)
failed(flist) == Select(flist, 1)

\* ----------------------------------------------------------- core.download

\* the url argument of download: a list of URLs or one string
ListArg(l) == [kind |-> "list", list |-> l, str |-> <<>>]
StrArg(u) == [kind |-> "str", list |-> <<>>, str |-> u]

\* how far download has come: resolved, when its URL set is known
Prelude(status, exc, resolved, urls, fsys, globs, trace) ==
  [status |-> status, exc |-> exc, resolved |-> resolved, urls |-> urls,
   files |-> fsys, globs |-> globs, trace |-> trace]

\* the URL set of download (no placeholder in the URLs of the model, so that
\* format_map leaves them as they are)
resolve_urls(arg, use_cache, fsys, run) ==
  IF arg.kind = "list" THEN Returned(arg.list, fsys, 0, FALSE)
  ELSE IF Contains(arg.str, "*")
  THEN core_get_url_list(arg.str, use_cache, HashedCachePath, fsys, run)
  ELSE Returned(<<arg.str>>, fsys, 0, FALSE)

\* download from its log line with commong_substring(urls) (None has no
\* format_map) to its call of download_urls; l is what resolving the URLs gave
download_resolved(l, readme) ==
  LET trace == readme \o (IF l.globs > 0 THEN <<"glob">> ELSE <<>>)
  IN IF l.status = "raised"
     THEN Prelude("raised", l.exc, FALSE, <<>>, l.files, l.globs, trace)
     ELSE IF returns_none(l.result)
     THEN Prelude("raised", "AttributeError", TRUE, l.result, l.files, l.globs, trace)
     ELSE IF Len(l.result) = 0
     THEN Prelude("returned", "", TRUE, l.result, l.files, l.globs, trace)
     ELSE Prelude("batch", "", TRUE, l.result, l.files, l.globs, trace)

\* the verbose argument of download: a bool, an int, or something else
BoolV(b) == [kind |-> "bool", bool |-> b, int |-> 0]
IntV(n) == [kind |-> "int", bool |-> FALSE, int |-> n]
OtherV == [kind |-> "other", bool |-> FALSE, int |-> 0]

\* the severity download sets its logger to (verbose a bool or an int)
logging_level(verbose) ==
  IF verbose.kind = "bool" THEN (IF verbose.bool THEN 15 ELSE 40) ELSE verbose.int

\* {dest}/{log_name}
LogPath == PlainPath(<<"dest", "/", "_downloads.log">>)

\* log_to_file(fname) with the logger at level: FileHandler opens the file for
\* appending, which creates it, and the two logger.info lines reach it when the
\* level lets severity 20 through
log_to_file(fsys, level) ==
  LET before == IF is_file(fsys, LogPath) THEN fsys[LogPath] ELSE <<>>
  IN WriteFile(fsys, LogPath,
               before \o (IF level <= 20 THEN <<"Start of logging session">> ELSE <<>>))

\* the log files of the model, and the lines log_to_file sends to the logger
OtherLogPath == PlainPath(<<"dest", "/", "other.log">>)
LogPaths == {LogPath, OtherLogPath}

\* the handlers of the logging module: FileHandler is a subclass of
\* StreamHandler
StreamHandler == [kind |-> "stream", fname |-> <<>>]
FileHandler(fname) == [kind |-> "file", fname |-> fname]
StreamHandlerClass == {"stream", "file"}
FileHandlerClass == {"file"}

\* logging.getLogger("fetch_data") before any call: no handler, level NOTSET.
\* calls and last_fname record the calls made: their number, and the fname of
\* the latest log_to_file
NOTSET == 0
WARNING == 30
NoLogger == [handlers |-> <<>>, level |-> NOTSET, calls |-> 0, last_fname |-> <<>>]

RemoveAt(l, i) == SubSeq(l, 1, i - 1) \o SubSeq(l, i + 1, Len(l))

\* for handler in logger.handlers: if isinstance(handler, cls):
\* logger.handlers.remove(handler). The loop walks the list it removes from: i
\* is the position of the iterator, which moves on by one after every element,
\* removed or not
RECURSIVE RemoveHandlers(_, _, _)
RemoveHandlers(handlers, i, cls) ==
  IF i > Len(handlers) THEN handlers
  ELSE IF handlers[i].kind \in cls THEN RemoveHandlers(RemoveAt(handlers, i), i + 1, cls)
  ELSE RemoveHandlers(handlers, i + 1, cls)

\* the level the logger works with: its own, or WARNING, the level of the root
\* logger, when it has none
EffectiveLevel(lg) == IF lg.level = NOTSET THEN WARNING ELSE lg.level

\* logger.info(line): every file handler of the logger appends the line to its
\* file when the level lets severity 20 through
RECURSIVE Emit(_, _, _, _)
Emit(fsys, lg, i, line) ==
  IF i > Len(lg.handlers) \/ EffectiveLevel(lg) > 20 THEN fsys
  ELSE IF lg.handlers[i].kind = "file"
  THEN Emit(WriteFile(fsys, lg.handlers[i].fname, fsys[lg.handlers[i].fname] \o <<line>>),
            lg, i + 1, line)
  ELSE Emit(fsys, lg, i + 1, line)

\* utils.log_to_stdout(level): the logger it leaves
log_to_stdout(lg, level) ==
  [lg EXCEPT !.handlers = Append(RemoveHandlers(lg.handlers, 1, StreamHandlerClass),
                                 StreamHandler),
             !.level = level,
             !.calls = @ + 1]

\* utils.log_to_file(fname): the logger it leaves
log_to_file_logger(lg, fname) ==
  [lg EXCEPT !.handlers = Append(RemoveHandlers(lg.handlers, 1, FileHandlerClass),
                                 FileHandler(fname)),
             !.calls = @ + 1,
             !.last_fname = fname]

\* utils.log_to_file(fname): the files it leaves. FileHandler(fname) opens the
\* file for appending, which creates it; then the session line is logged
log_to_file_files(fsys, lg, fname) ==
  Emit(IF is_file(fsys, fname) THEN fsys ELSE WriteFile(fsys, fname, <<>>),
       log_to_file_logger(lg, fname), 1, "Start of logging session")

\* the logger core.download leaves: setLevel(logging_level), and log_to_file
\* below severity 40
download_logger(lg, level) ==
  IF level < 40 THEN log_to_file_logger([lg EXCEPT !.level = level], LogPath)
  ELSE [lg EXCEPT !.level = level]

\* the logging set-up of download (verbose a bool or an int): the file system it
\* leaves
download_logging(verbose, fsys) ==
  IF logging_level(verbose) < 40 THEN log_to_file(fsys, logging_level(verbose))
  ELSE fsys

\* {dest}/{fname}; README.md is the readme_name of download, readme.txt the name
\* download.create_download_readme writes to
ReadmeFile(fname) == PlainPath(<<"dest", "/", fname>>)
ReadmePath == ReadmeFile("README.md")
DlReadmePath == ReadmeFile("readme.txt")

\* the url make_readme_file is given: a list is shortened to
\* commong_substring(url) + "..."
readme_url(arg) ==
  IF arg.kind = "list" THEN commong_substring(arg.list).str \o <<".", ".", ".">>
  ELSE arg.str

\* the text of make_readme_file, as far as it depends on the call: its URL line
\* (no name and no meta in the calls of the model)
make_readme_file(url) == <<"URL", " ">> \o url

\* a dict as a function on its keys: d[k] = v, d.pop(k, None), d.get(k, None)
NoneV == "None"
DictSet(d, k, v) == [x \in (DOMAIN d) \cup {k} |-> IF x = k THEN v ELSE d[x]]
DictPop(d, k) == [x \in (DOMAIN d) \ {k} |-> d[x]]
DictGet(d, k) == IF k \in DOMAIN d THEN d[k] ELSE NoneV

\* the text make_readme_file stores under meta["data_preparation"], and the
\* account name pwd.getpwuid(os.getuid())[0] gives
DataPreparation == "Data has been downloaded directly"
OsUser == "user"

\* what make_readme_file does with the meta dict it is given, which is the
\* caller's object: it stores data_preparation, pops contact (falling back to
\* the e-mail of the git configuration, then to the account name), lists the
\* entries that are left, and pops data_preparation before it returns. contact:
\* the Contact line, listed: the entries of the text, meta: the dict afterwards
make_readme_file_meta(meta, email) ==
  LET stored == DictSet(meta, "data_preparation", DataPreparation)
      contact == DictGet(stored, "contact")
      popped == DictPop(stored, "contact")
  IN [contact |-> IF contact # NoneV THEN contact
                  ELSE IF email # NoneV THEN email
                  ELSE OsUser,
      listed |-> popped,
      meta |-> DictPop(popped, "data_preparation")]

\* core.create_download_readme(fname, **entry) with entry["url"] = arg, when
\* commong_substring(url) + "..." does not raise: the file system it leaves
core_create_download_readme(fsys, fname, arg) ==
  WriteFile(fsys, ReadmeFile(fname), make_readme_file(readme_url(arg)))

\* download.create_download_readme(name, **source_dict): it returns when the file
\* is there; otherwise it calls make_readme_file with seven positional arguments
\* and two keywords the function does not have
dl_create_download_readme(fsys) ==
  IF is_file(fsys, DlReadmePath) THEN [exc |-> "", files |-> fsys]
  ELSE [exc |-> "TypeError", files |-> fsys]

\* a download that resolves its URLs first and writes the README when that has
\* not raised
download_prelude_readme_last(arg, use_cache, create_readme, fsys, run) ==
  IF create_readme /\ arg.kind = "list" /\ returns_none(arg.list)
  THEN Prelude("raised", "TypeError", FALSE, <<>>, fsys, 0, <<>>)
  ELSE download_resolved(resolve_urls(arg, use_cache, fsys, run), <<>>)

\* download up to its call of download_urls: the README (for a list url it needs
\* commong_substring(url) + "...", which raises TypeError for None), the URL
\* set, the log line, the return of [] for no URL
download_prelude(arg, use_cache, create_readme, fsys, run) ==
  IF create_readme /\ arg.kind = "list" /\ returns_none(arg.list)
  THEN Prelude("raised", "TypeError", FALSE, <<>>, fsys, 0, <<>>)
  ELSE download_resolved(
         resolve_urls(arg, use_cache,
                      IF create_readme
                      THEN core_create_download_readme(fsys, "README.md", arg)
                      ELSE fsys,
                      run),
         IF create_readme THEN <<"readme">> ELSE <<>>)

\* ------------------------------------------------------------------ state

VARIABLES
  files,  \* the cache files on disk: path -> contents
  call,   \* the last call of a lister: its arguments and its outcome
  dl,     \* the last call of download / download_urls
  tasks,  \* its download tasks, one per URL
  pure,   \* the last call of a function that keeps no state: input and output
  logger  \* the "fetch_data" logger of the process: its handlers and its level

vars == <<files, call, dl, tasks, pure, logger>>

NoPure == [fn |-> "none"]

NoCall ==
  [fn |-> "none", url |-> <<>>, use_cache |-> FALSE, cache_path |-> <<>>,
   raise_on_empty |-> FALSE, cached |-> FALSE, status |-> "none", result |-> <<>>,
   exc |-> "", globs |-> 0, wrote |-> FALSE]

\* the record of a lister call with outcome r; cached: its cache file was there
\* when it began
CallRecord(fn, url, use_cache, cache_path, raise_on_empty, cached, r) ==
  [fn |-> fn, url |-> url, use_cache |-> use_cache, cache_path |-> cache_path,
   raise_on_empty |-> raise_on_empty, cached |-> cached, status |-> r.status,
   result |-> r.result, exc |-> r.exc, globs |-> r.globs, wrote |-> r.wrote]

NoDownload ==
  [fn |-> "none", arg |-> ListArg(<<>>), n_jobs |-> 1, use_cache |-> FALSE,
   create_readme |-> FALSE, resolved |-> FALSE, urls |-> <<>>, jobs |-> 0,
   phase |-> "idle", level |-> 40,
   result |-> <<>>, exc |-> "", globs |-> 0, trace |-> <<>>, interrupted |-> FALSE]

PendingTask ==
  [state |-> "pending", status |-> 0, value |-> <<>>, exc |-> "", attempts |-> 0,
   interrupted |-> FALSE]

Init ==
  /\ files = <<>>
  /\ call = NoCall
  /\ dl = NoDownload
  /\ tasks = <<>>
  /\ pure = NoPure
  /\ logger = NoLogger

\* the call core.get_url_list(url, use_cache, cache_path) on a remote that does run
CoreGetUrlListOf(url, use_cache, cache_path, run) ==
  LET r == core_get_url_list(url, use_cache, cache_path, files, run)
  IN /\ files' = r.files
     /\ call' = CallRecord("core.get_url_list", url, use_cache, cache_path, FALSE,
                           is_file(files, CoreCachePath(url, cache_path)), r)
     /\ UNCHANGED <<dl, tasks, pure, logger>>

\* a call of core.get_url_list
CoreGetUrlList ==
  \E url \in ListerUrls, use_cache \in BOOLEAN, cache_path \in CoreCachePathArgs,
     run \in RemoteRuns :
    CoreGetUrlListOf(url, use_cache, cache_path, run)

\* a call of download.get_url_list
DlGetUrlList ==
  /\ \E url \in DlListerUrls, use_cache \in BOOLEAN, cache_path \in DlCachePathArgs,
        raise_on_empty \in BOOLEAN, run \in RemoteRuns :
       LET r == dl_get_url_list(url, cache_path, use_cache, raise_on_empty, files, run)
       IN /\ files' = r.files
          /\ call' = CallRecord("download.get_url_list", url, use_cache, cache_path,
                                raise_on_empty,
                                is_file(files, DlCachePath(url, cache_path)), r)
  /\ UNCHANGED <<dl, tasks, pure, logger>>

\* a call of core.get_url_list with a pattern of plain http or of sftp
CoreGetUrlListOther ==
  \E url \in PrefixUrls, use_cache \in BOOLEAN, cache_path \in CoreCachePathArgs,
     run \in RemoteRuns :
    CoreGetUrlListOf(url, use_cache, cache_path, run)

\* a call of core.get_url_list with a cache_path that has no {hash} placeholder
CoreGetUrlListFixed ==
  \E url \in DlListerUrls, use_cache \in BOOLEAN, run \in RemoteRuns :
    CoreGetUrlListOf(url, use_cache, FixedCachePath, run)

SharedCacheNext == CoreGetUrlListFixed
SpecSharedCache == Init /\ [][SharedCacheNext]_vars

PrefixNext == CoreGetUrlListOther
SpecPrefix == Init /\ [][PrefixNext]_vars

ListerNext == CoreGetUrlList
SpecLister == Init /\ [][ListerNext]_vars

DlListerNext == DlGetUrlList
SpecDlLister == Init /\ [][DlListerNext]_vars

\* ------------------------------------------------- download_urls, download

\* the URLs of explicit lists: two of supported schemes, one of an unknown one
UrlA == HTTPS \o SchemeSep \o Host \o <<"/", "a">>
UrlB == FTP \o SchemeSep \o Host \o <<"/", "b">>
UrlX == <<"s">> \o FTP \o SchemeSep \o Host \o <<"/", "x">>
ExecUrls == {UrlA, UrlB, UrlX}
UrlH == HTTP \o SchemeSep \o Host \o <<"/", "a">>

RECURSIVE ListsUpTo(_, _)
ListsUpTo(S, n) ==
  IF n = 0 THEN {<<>>}
  ELSE ListsUpTo(S, n - 1)
         \cup {<<u>> \o l : u \in S, l \in {m \in ListsUpTo(S, n - 1) : Len(m) = n - 1}}
UrlLists == ListsUpTo(ExecUrls, MaxUrls)

\* n_jobs: below, at and above the accepted range 1..NJobsMax
NJobsInputs == {-1, 0, 1, 2, NJobsMax, NJobsMax + 1}

\* the url argument of download: a list, a wildcard pattern, a plain URL
DownloadArgs ==
  {ListArg(l) : l \in UrlLists} \cup {StrArg(HttpsPattern), StrArg(PlainUrl)}

\* the record of a call of download / download_urls that has reached phase
Started(fn, arg, n_jobs, use_cache, create_readme, pre, jobs, phase, exc) ==
  [fn |-> fn, arg |-> arg, n_jobs |-> n_jobs, use_cache |-> use_cache,
   create_readme |-> create_readme, resolved |-> pre.resolved, urls |-> pre.urls,
   jobs |-> jobs,
   phase |-> phase, level |-> 40, result |-> <<>>, exc |-> exc, globs |-> pre.globs,
   trace |-> pre.trace, interrupted |-> FALSE]

\* a call of core.download_urls(urls, n_jobs), up to the start of its tasks
DownloadUrls ==
  /\ dl.phase # "running"
  /\ \E urls \in UrlLists, n_jobs \in NJobsInputs :
       LET st == download_urls_start(urls, n_jobs)
           pre == Prelude("batch", "", TRUE, urls, files, 0, <<>>)
       IN /\ dl' = Started("download_urls", ListArg(urls), n_jobs, FALSE, FALSE, pre,
                           st.jobs, IF st.exc = "" THEN "running" ELSE "raised", st.exc)
          /\ tasks' = [i \in 1..Len(urls) |-> PendingTask]
  /\ UNCHANGED <<files, call, pure, logger>>

\* an earlier listing of the pattern download is called with, which has left its
\* cache file in the destination directory
EarlierListing ==
  /\ dl.phase = "idle"
  /\ call.fn = "none"
  /\ \E run \in RemoteRuns : CoreGetUrlListOf(HttpsPattern, TRUE, HashedCachePath, run)

\* download from its call of download_urls on, pre being what it has done so
\* far and level the severity its logger has been set to
DownloadFrom(arg, n_jobs, use_cache, create_readme, level, pre) ==
  LET st == download_urls_start(pre.urls, n_jobs)
      batch == pre.status = "batch"
  IN /\ dl' = [Started("download", arg, n_jobs, use_cache, create_readme, pre,
                       IF batch THEN st.jobs ELSE 0,
                       IF ~batch THEN pre.status
                       ELSE IF st.exc = "" THEN "running" ELSE "raised",
                       IF batch THEN st.exc ELSE pre.exc)
                EXCEPT !.level = level]
     /\ tasks' = IF batch THEN [i \in 1..Len(pre.urls) |-> PendingTask] ELSE <<>>
     /\ files' = pre.files
     /\ logger' = download_logger(logger, level)

\* the call core.download(url, n_jobs, use_cache, create_readme) of a run of the
\* program, up to the start of its tasks; use_cache and the remote only matter to
\* a wildcard url
Download ==
  /\ dl.phase = "idle"
  /\ \E arg \in DownloadArgs, n_jobs \in NJobsInputs, create_readme \in BOOLEAN :
       \E use_cache \in IF arg.kind = "str" /\ Contains(arg.str, "*")
                        THEN BOOLEAN ELSE {TRUE},
          run \in IF arg.kind = "str" /\ Contains(arg.str, "*")
                  THEN RemoteRuns
                  ELSE {[first |-> "ok", second |-> "ok", files |-> <<>>]} :
         DownloadFrom(arg, n_jobs, use_cache, create_readme,
                      logging_level(BoolV(FALSE)),
                      download_prelude(arg, use_cache, create_readme, files, run))
  /\ UNCHANGED <<call, pure>>

\* the verbose arguments: the two booleans, severities around 20 and 40, and a
\* value that is neither bool nor int
Verbosities ==
  {BoolV(TRUE), BoolV(FALSE), OtherV}
    \cup {IntV(n) : n \in {10, 20, 21, 30, 39, 40, 50}}

\* a call core.download(url, n_jobs, verbose=..., create_readme=...) with an
\* explicit list of URLs, up to the start of its tasks
DownloadVerbose ==
  /\ dl.phase = "idle"
  /\ \E verbose \in Verbosities, n_jobs \in {1, 2}, create_readme \in BOOLEAN,
        arg \in {ListArg(<<UrlA>>), ListArg(<<UrlA, UrlB>>)} :
       IF verbose.kind = "other"
       THEN /\ dl' = [NoDownload EXCEPT !.fn = "download", !.arg = arg,
                                        !.n_jobs = n_jobs, !.phase = "raised",
                                        !.create_readme = create_readme,
                                        !.exc = "TypeError", !.level = -1]
            /\ UNCHANGED <<files, tasks, logger>>
       ELSE DownloadFrom(arg, n_jobs, TRUE, create_readme, logging_level(verbose),
                         download_prelude(arg, TRUE, create_readme,
                                          download_logging(verbose, files),
                                          [first |-> "ok", second |-> "ok",
                                           files |-> <<>>]))
  /\ UNCHANGED <<call, pure>>

Sequential == dl.jobs = 1
NumRunning == Cardinality({i \in 1..Len(tasks) : tasks[i].state = "running"})

\* a worker takes the next task of the list: the list comprehension takes it when
\* the one before has returned, the pool when a worker is free
TaskStart(i) ==
  /\ dl.phase = "running"
  /\ tasks[i].state = "pending"
  /\ \A j \in 1..(i - 1) : tasks[j].state # "pending"
  /\ IF Sequential THEN \A j \in 1..(i - 1) : tasks[j].state = "returned"
     ELSE NumRunning < dl.jobs
  /\ tasks' = [tasks EXCEPT ![i].state = "running"]
  /\ UNCHANGED <<files, call, dl, pure, logger>>

\* pooch_retrieve_handling runs for task i. The user's interrupt is delivered to
\* the main thread: it hits pooch.retrieve only when the tasks run sequentially
TaskRun(i) ==
  /\ dl.phase = "running"
  /\ tasks[i].state = "running"
  /\ \E o \in [1..3 -> Outcomes] :
       /\ (\E k \in 1..3 : o[k] = "interrupt") => Sequential
       /\ LET r == pooch_retrieve_handling(dl.urls[i], o)
              hit == \E k \in 1..r.attempts : o[k] = "interrupt"
          IN /\ tasks' = [tasks EXCEPT ![i] =
                            [state |-> IF r.kind = "return" THEN "returned" ELSE "raised",
                             status |-> r.status, value |-> r.value, exc |-> r.exc,
                             attempts |-> r.attempts, interrupted |-> hit]]
             /\ dl' = [dl EXCEPT !.interrupted = @ \/ hit]
  /\ UNCHANGED <<files, call, pure, logger>>

\* the user's interrupt reaches the main thread while it waits for the pool
PoolInterrupt ==
  /\ dl.phase = "running"
  /\ ~Sequential
  /\ dl' = [dl EXCEPT !.phase = "raised", !.exc = "KeyboardInterrupt",
                      !.interrupted = TRUE]
  /\ UNCHANGED <<files, call, tasks, pure, logger>>

\* the exception of a task leaves download_urls (and download)
Propagate ==
  /\ dl.phase = "running"
  /\ \E i \in 1..Len(tasks) :
       /\ tasks[i].state = "raised"
       /\ dl' = [dl EXCEPT !.phase = "raised", !.exc = tasks[i].exc]
  /\ UNCHANGED <<files, call, tasks, pure, logger>>

\* every task has returned: download_urls returns passed, download flattens it
Finish ==
  /\ dl.phase = "running"
  /\ \A i \in 1..Len(tasks) : tasks[i].state = "returned"
  /\ dl' = [dl EXCEPT !.phase = "returned",
                      !.result = IF dl.fn = "download" THEN flatten_list(passed(tasks))
                                 ELSE passed(tasks)]
  /\ UNCHANGED <<files, call, tasks, pure, logger>>

TaskNext ==
  \/ \E i \in 1..Len(tasks) : TaskStart(i)
  \/ \E i \in 1..Len(tasks) : TaskRun(i)
  \/ PoolInterrupt
  \/ Propagate
  \/ Finish

ExecNext == DownloadUrls \/ TaskNext
SpecExec == Init /\ [][ExecNext]_vars

\* distinct URLs whose last path segment is the same file name
SameNameUrls == {UrlA, UrlH}
SameNameLists == ListsUpTo(SameNameUrls, MaxUrls)

\* a call of core.download_urls whose URLs are files of one name on different
\* servers, up to the start of its tasks
DownloadUrlsSameName ==
  /\ dl.phase # "running"
  /\ \E urls \in SameNameLists, n_jobs \in NJobsInputs :
       LET st == download_urls_start(urls, n_jobs)
           pre == Prelude("batch", "", TRUE, urls, files, 0, <<>>)
       IN /\ dl' = Started("download_urls", ListArg(urls), n_jobs, FALSE, FALSE, pre,
                           st.jobs, IF st.exc = "" THEN "running" ELSE "raised", st.exc)
          /\ tasks' = [i \in 1..Len(urls) |-> PendingTask]
  /\ UNCHANGED <<files, call, pure, logger>>

TargetsNext == DownloadUrlsSameName \/ TaskNext
SpecTargets == Init /\ [][TargetsNext]_vars

\* the levels log_to_stdout is called with: its default and two others
StdoutLevels == {15, 20, 40}

\* the program calls the two functions at most MaxLogCalls times
MaxLogCalls == 4

\* a call of utils.log_to_stdout(level)
LogToStdout ==
  /\ logger.calls < MaxLogCalls
  /\ \E level \in StdoutLevels : logger' = log_to_stdout(logger, level)
  /\ UNCHANGED <<files, call, dl, tasks, pure>>

\* a call of utils.log_to_file(fname)
LogToFile ==
  /\ logger.calls < MaxLogCalls
  /\ \E fname \in LogPaths :
       /\ logger' = log_to_file_logger(logger, fname)
       /\ files' = log_to_file_files(files, logger, fname)
  /\ UNCHANGED <<call, dl, tasks, pure>>

HandlersNext == LogToStdout \/ LogToFile
SpecHandlers == Init /\ [][HandlersNext]_vars

LoggingNext == DownloadVerbose \/ TaskNext
SpecLogging == Init /\ [][LoggingNext]_vars

DownloadNext == EarlierListing \/ Download \/ TaskNext
SpecDownload == Init /\ [][DownloadNext]_vars

\* -------------------------------------------- functions without state

\* a call of choose_downloader (the function keeps nothing from one call to the
\* next, so one call from the start is every call)
ChooseDownloader ==
  /\ pure = NoPure
  /\ \E url \in ExecUrls \cup {UrlH}, login \in SUBSET LoginKeys, progress \in BOOLEAN :
       pure' = [fn |-> "choose_downloader", url |-> url, login |-> login,
                progress |-> progress, out |-> choose_downloader(url, login, progress)]
  /\ UNCHANGED <<files, call, dl, tasks, logger>>

\* URLs for choose_processor: a directory and a file name with an extension
ProcDirs == {<<>>, <<"v", ".", "z", "i", "p", "/">>, <<"*", "/">>}
ProcExts ==
  {<<>>, <<".", "n", "c">>, <<".", "g", "z">>, <<".", "g", "z", "2">>,
   <<".", "t", "a", "r">>, <<".", "t", "g", "z">>,
   <<".", "t", "a", "r", ".", "g", "z">>, <<".", "z", "i", "p">>,
   <<".", "g", "z", "i", "p", ".", "n", "c">>}
ProcUrls ==
  {FTP \o SchemeSep \o Host \o <<"/">> \o d \o <<"a">> \o x :
     d \in ProcDirs, x \in ProcExts}

\* a call of choose_processor
ChooseProcessor ==
  /\ pure = NoPure
  /\ \E url \in ProcUrls :
       pure' = [fn |-> "choose_processor", url |-> url, out |-> choose_processor(url)]
  /\ UNCHANGED <<files, call, dl, tasks, logger>>

\* the strings over two letters of at most n characters
RECURSIVE WordsUpTo(_)
WordsUpTo(n) ==
  IF n = 0 THEN {<<>>}
  ELSE WordsUpTo(n - 1)
         \cup {<<c>> \o w : c \in {"a", "b"}, w \in {v \in WordsUpTo(n - 1) : Len(v) = n - 1}}

\* the lists handed to commong_substring: pairs of strings, triples of shorter
\* ones
WordLists ==
  {<<v, w>> : v, w \in WordsUpTo(MaxWord)}
    \cup {<<u, v, w>> : u, v, w \in WordsUpTo(MaxWord - 1)}

\* a call of commong_substring
CommonSubstring ==
  /\ pure = NoPure
  /\ \E input_list \in WordLists :
       pure' = [fn |-> "commong_substring", input_list |-> input_list,
                out |-> commong_substring(input_list)]
  /\ UNCHANGED <<files, call, dl, tasks, logger>>

PureNext == ChooseDownloader \/ ChooseProcessor \/ CommonSubstring
SpecPure == Init /\ [][PureNext]_vars

\* ------------------------------------------------------------ the README

\* the url entries the README is made for
ReadmeArgs ==
  {StrArg(PlainUrl), StrArg(HttpsPattern), ListArg(<<>>), ListArg(<<UrlA>>),
   ListArg(<<UrlA, UrlB>>)}

\* a call of core.create_download_readme(fname, dest=..., url=...)
CoreCreateReadme ==
  /\ \E fname \in {"README.md", "readme.txt"}, arg \in ReadmeArgs :
       LET raises == arg.kind = "list" /\ returns_none(arg.list)
       IN /\ files' = IF raises THEN files
                      ELSE core_create_download_readme(files, fname, arg)
          /\ pure' = [fn |-> "core.create_download_readme", path |-> ReadmeFile(fname),
                      arg |-> arg, exc |-> IF raises THEN "TypeError" ELSE ""]
  /\ UNCHANGED <<call, dl, tasks, logger>>

\* a call of download.create_download_readme(name, dest=..., url=...)
DlCreateReadme ==
  /\ \E arg \in {a \in ReadmeArgs : a.kind = "str"} :
       LET r == dl_create_download_readme(files)
       IN /\ files' = r.files
          /\ pure' = [fn |-> "download.create_download_readme", path |-> DlReadmePath,
                      arg |-> arg, exc |-> r.exc]
  /\ UNCHANGED <<call, dl, tasks, logger>>

\* the meta of a catalog entry: any of these keys, with short values
MetaKeys == {"contact", "data_preparation", "doi", "citation"}
MetaValues == {"x", "y"}
Metas == UNION {[K -> MetaValues] : K \in SUBSET MetaKeys}

\* user.email of the git configuration of the machine, None when there is none
GitEmails == {NoneV, "e@git"}

\* the README is made from one entry at most MaxCalls times
MaxCalls == 2

\* a call of utils.make_readme_file(name, url, meta): the first one with the
\* meta of an entry, a later one with the same dict object, as the first call
\* left it. entry: the meta of the entry before the first call; before: the
\* dict as this call received it
MakeReadmeFile ==
  /\ \/ /\ pure = NoPure
        /\ \E meta \in Metas, email \in GitEmails :
             LET r == make_readme_file_meta(meta, email)
             IN pure' = [fn |-> "make_readme_file", entry |-> meta, before |-> meta,
                         meta |-> r.meta, contact |-> r.contact, first |-> r.contact,
                         listed |-> r.listed, email |-> email, calls |-> 1]
     \/ /\ pure # NoPure
        /\ pure.fn = "make_readme_file"
        /\ pure.calls < MaxCalls
        /\ LET r == make_readme_file_meta(pure.meta, pure.email)
           IN pure' = [pure EXCEPT !.before = pure.meta, !.meta = r.meta,
                                   !.contact = r.contact, !.listed = r.listed,
                                   !.calls = @ + 1]
  /\ UNCHANGED <<files, call, dl, tasks, logger>>

MetaNext == MakeReadmeFile
SpecMeta == Init /\ [][MetaNext]_vars

ReadmeNext == CoreCreateReadme \/ DlCreateReadme
SpecReadme == Init /\ [][ReadmeNext]_vars

\* ---------------------------------------------- download_urls, download

IsDownloadUrls == dl.fn = "download_urls"
IsDownload == dl.fn = "download"
Ended == dl.phase \in {"returned", "raised"}
InRange(n_jobs) == 1 <= n_jobs /\ n_jobs <= NJobsMax
Supported(urls) == \A i \in 1..Len(urls) : ~choose_downloader_raises(urls[i])
Attempted(i) == tasks[i].attempts > 0

\* the handlers of the logger that are of the kind
HandlersOf(kind) == {i \in 1..Len(logger.handlers) : logger.handlers[i].kind = kind}

\* C23: after any calls of log_to_stdout and log_to_file the logger has at most
\* one stdout stream handler and at most one file handler, and the file handler
\* it has is that of the latest log_to_file.
C23_OneHandlerOfAKind ==
  /\ Cardinality(HandlersOf("stream")) <= 1
  /\ Cardinality(HandlersOf("file")) <= 1
  /\ \A i \in HandlersOf("file") : logger.handlers[i].fname = logger.last_fname

IsMakeReadmeFile == pure.fn = "make_readme_file"

\* C22: make_readme_file leaves the meta it is given as it was, with the same
\* keys and values, and a second README made from the same entry has the
\* Contact line of the first.
C22_MetaUnchanged ==
  IsMakeReadmeFile
    => /\ pure.meta = pure.before
       /\ pure.meta = pure.entry
       /\ pure.contact = pure.first

IsChooseDownloader == pure.fn = "choose_downloader"

\* C12: choose_downloader for an http or https URL with a login that holds
\* username, password and cookies raises: it returns no downloader.
C12_CredentialsConflict ==
  (IsChooseDownloader /\ StartsWith(pure.url, HTTP)
     /\ {"username", "password", "cookies"} \subseteq pure.login)
    => pure.out.exc # ""

\* what choose_downloader is to give for a URL, by its scheme alone
ByScheme(url, d) ==
  LET scheme == urlparse(url).scheme
  IN IF scheme = FTP THEN d.exc = "" /\ d.cls = "FTPDownloader"
     ELSE IF scheme \in {HTTP, HTTPS} THEN d.exc = "" /\ d.cls = "HTTPDownloader"
     ELSE d.exc = "ValueError"

\* C13: for every URL of a batch of download_urls the downloader is the one of
\* its scheme (ftp: FTP, http and https: HTTP, any other: ValueError), and a batch
\* that holds a URL of an unsupported scheme raises with no task started.
C13_DownloaderByScheme ==
  (IsDownloadUrls /\ dl.phase # "idle")
    => /\ \A url \in {dl.urls[i] : i \in 1..Len(dl.urls)} \cup {UrlH} :
            ByScheme(url, choose_downloader(url, {}, FALSE))
       /\ ~Supported(dl.urls)
            => /\ dl.phase = "raised"
               /\ \A i \in 1..Len(tasks) : tasks[i].state = "pending" /\ ~Attempted(i)

\* a batch of a supported URL and then an unsupported one has raised ValueError
C13_Witness ==
  /\ IsDownloadUrls /\ dl.phase = "raised" /\ dl.exc = "ValueError"
  /\ dl.urls = <<UrlA, UrlX>>
  /\ tasks[1].state = "pending"

\* the call of download has listed the remote or attempted a retrieval
NetworkUsed == dl.globs > 0 \/ \E i \in 1..Len(tasks) : Attempted(i)

\* C14: when a call of download with create_readme true has listed the remote or
\* attempted a retrieval, the README was written first and is in the destination
\* directory, also when the listing or a retrieval has raised.
C14_ReadmeFirst ==
  (IsDownload /\ dl.create_readme /\ NetworkUsed)
    => /\ is_file(files, ReadmePath)
       /\ dl.trace # <<>> /\ dl.trace[1] = "readme"

\* the listing of a call with create_readme true has raised, the README is there
C14_Witness ==
  /\ IsDownload /\ dl.create_readme /\ dl.globs > 0
  /\ dl.phase = "raised" /\ ~dl.resolved
  /\ is_file(files, ReadmePath)

IsCreateReadme ==
  pure.fn \in {"core.create_download_readme", "download.create_download_readme"}

\* C15: after a call of create_download_readme (of core or of download) that
\* has returned, the README at its path holds the text made from the url of that
\* call, whatever the file held before.
C15_ReadmeOverwritten ==
  (IsCreateReadme /\ pure.exc = "")
    => /\ is_file(files, pure.path)
       /\ files[pure.path] = make_readme_file(readme_url(pure.arg))

\* C16: after a call of download with verbose a bool or an int, the log file is
\* in the destination directory if and only if the severity set from verbose is
\* at most 20.
C16_LogFileIffInfo ==
  (IsDownload /\ dl.phase # "idle" /\ dl.level >= 0)
    => (is_file(files, LogPath) <=> dl.level <= 20)

\* C17: a task the handler is done with, and that no interrupt has hit, has
\* returned: with status 0 and the local path after a retrieval that succeeded,
\* or with status 1 and its URL after the third attempt; a first attempt that
\* fails with another error is followed by a second one.
C17_FallbackChain ==
  \A i \in 1..Len(tasks) :
    (tasks[i].state \in {"returned", "raised"} /\ ~tasks[i].interrupted)
      => /\ tasks[i].state = "returned"
         /\ tasks[i].status = 0 => tasks[i].value = LocalPath(dl.urls[i])
         /\ tasks[i].status = 1 => tasks[i].attempts = 3 /\ tasks[i].value = dl.urls[i]

\* the file name of a URL ends with one of the extensions
EndsWith(s, x) == Len(s) >= Len(x) /\ SubSeq(s, Len(s) - Len(x) + 1, Len(s)) = x
HasExtension(url, exts) ==
  LET parts == Split(url, "/")
  IN \E x \in exts : EndsWith(parts[Len(parts)], x)

\* the decompressor of the claim's table: untar, unzip, decompress, a later entry
\* overriding an earlier one
TableProcessor(url) ==
  IF HasExtension(url, {<<".", "g", "z">>, <<".", "g", "z", "2">>}) THEN "Decompress"
  ELSE IF HasExtension(url, {<<".", "z", "i", "p">>}) THEN "Unzip"
  ELSE IF HasExtension(url, {<<".", "t", "a", "r">>, <<".", "t", "g", "z">>,
                             <<".", "t", "a", "r", ".", "g", "z">>}) THEN "Untar"
  ELSE "None"

\* C18: choose_processor gives the decompressor of the table entry that matches
\* the extension of the URL's file name (the last matching entry of untar, unzip,
\* decompress), and none for a file name with none of the extensions.
C18_ProcessorByExtension ==
  pure.fn = "choose_processor" => pure.out = TableProcessor(pure.url)

\* the substrings two strings share
CommonTo(v, w) ==
  {SubSeq(v, i, j) : i \in 1..(Len(v) + 1), j \in 0..Len(v)} \cap
    {SubSeq(w, i, j) : i \in 1..(Len(w) + 1), j \in 0..Len(w)}

\* C19: commong_substring of two strings is a substring of both and no substring
\* they share is longer (two equal strings give the string); of more strings it
\* is a substring of each.
C19_LongestCommonSubstring ==
  pure.fn = "commong_substring"
    => /\ ~pure.out.none
       /\ \A k \in 1..Len(pure.input_list) : Occurs(pure.out.str, pure.input_list[k])
       /\ Len(pure.input_list) = 2
            => \A c \in CommonTo(pure.input_list[1], pure.input_list[2]) :
                 Len(c) <= Len(pure.out.str)

PairwiseDistinct(l) == \A i, j \in 1..Len(l) : i # j => l[i] # l[j]

\* C21: in a batch of download_urls over pairwise distinct URLs, no two tasks
\* that have begun have the same local target, and no local path is returned
\* for two URLs.
C21_DistinctTargets ==
  (IsDownloadUrls /\ PairwiseDistinct(dl.urls))
    => \A i, j \in 1..Len(tasks) :
         (i # j /\ tasks[i].state # "pending" /\ tasks[j].state # "pending")
           => /\ LocalPath(dl.urls[i]) # LocalPath(dl.urls[j])
              /\ (tasks[i].state = "returned" /\ tasks[j].state = "returned"
                    /\ tasks[i].status = 0 /\ tasks[j].status = 0)
                   => tasks[i].value # tasks[j].value

\* C1: a call of download_urls with a non-empty batch of supported URLs and
\* 1 <= n_jobs <= 8 that no interrupt has hit never ends by raising: it returns,
\* every URL has been attempted, and the result is exactly the local paths of the
\* URLs whose retrieval succeeded.
C1_FailureNeverAborts ==
  (IsDownloadUrls /\ Ended /\ dl.urls # <<>> /\ Supported(dl.urls)
     /\ InRange(dl.n_jobs) /\ ~dl.interrupted)
    => /\ dl.phase = "returned"
       /\ \A i \in 1..Len(tasks) : Attempted(i)
       /\ dl.result = passed(tasks)

\* C2: a call of download or download_urls with n_jobs outside 1..8 raises, and
\* it has listed no remote directory and attempted no retrieval when it does.
C2_NJobsOutOfRange ==
  (dl.phase # "idle" /\ ~InRange(dl.n_jobs))
    => /\ dl.phase = "raised"
       /\ dl.globs = 0
       /\ \A i \in 1..Len(tasks) : ~Attempted(i)

\* C3: download_urls called with an empty list and 1 <= n_jobs <= 8 returns the
\* empty list and raises nothing.
C3_EmptyBatchReturnsEmpty ==
  (IsDownloadUrls /\ dl.phase # "idle" /\ dl.urls = <<>> /\ InRange(dl.n_jobs))
    => (dl.phase = "returned" /\ dl.result = <<>>)

\* the URL set of the call of download is empty: an empty explicit list, or a
\* wildcard pattern resolved to no URL
EmptyUrlSet ==
  /\ IsDownload /\ dl.phase # "idle" /\ InRange(dl.n_jobs)
  /\ \/ dl.arg.kind = "list" /\ dl.arg.list = <<>>
     \/ dl.resolved /\ dl.urls = <<>>

\* C4: a call of download (1 <= n_jobs <= 8) whose URL set is empty returns the
\* empty list without raising and attempts no retrieval, with create_readme true
\* or false.
C4_EmptyUrlSetReturnsEmpty ==
  EmptyUrlSet => (dl.phase = "returned" /\ dl.result = <<>> /\ tasks = <<>>)

\* C5: an interrupt that hits a retrieval attempt of a task leaves the handler as
\* KeyboardInterrupt (the task neither returns nor is given a failed status), no
\* task is started after it, and download_urls never returns: it ends by raising
\* KeyboardInterrupt.
C5_InterruptPropagates ==
  /\ \A i \in 1..Len(tasks) :
       tasks[i].interrupted
         => /\ tasks[i].state = "raised" /\ tasks[i].exc = "KeyboardInterrupt"
            /\ \A j \in (i + 1)..Len(tasks) : tasks[j].state = "pending"
  /\ dl.interrupted
       => /\ dl.phase # "returned"
          /\ dl.phase = "raised" => dl.exc = "KeyboardInterrupt"

\* the interrupt has hit the second task of a sequential batch, after the first
\* had been retrieved, and download_urls has raised it
C5_Witness ==
  /\ IsDownloadUrls /\ dl.phase = "raised" /\ dl.exc = "KeyboardInterrupt"
  /\ Len(tasks) = 2
  /\ tasks[1].state = "returned" /\ tasks[2].interrupted

\* ------------------------------------------------------- the URL lister

IsCoreCall == call.fn = "core.get_url_list"
IsDlCall == call.fn = "download.get_url_list"
IsWildcard(url) == Contains(url, "*")
CallCachePath == CoreCachePath(call.url, call.cache_path)

\* protocol://host of the pattern of the last lister call
CallPrefix == urlparse(call.url).scheme \o SchemeSep \o urlparse(call.url).netloc

\* C11: every URL core.get_url_list returns from a remote listing is
\* protocol://host followed by one path of the host: the prefix is there once.
C11_PrefixOnce ==
  (IsCoreCall /\ IsWildcard(call.url) /\ call.status = "returned" /\ call.globs > 0)
    => \A i \in 1..Len(call.result) :
         \E f \in RemoteFiles : call.result[i] = CallPrefix \o f

\* C20: the URLs a call of core.get_url_list returns from the cache were listed
\* for the pattern of that call: each carries the protocol://host of the pattern,
\* whatever patterns the earlier calls with the same cache_path had.
C20_CacheOfSamePattern ==
  (IsCoreCall /\ IsWildcard(call.url) /\ call.use_cache /\ call.cached
     /\ call.status = "returned")
    => \A i \in 1..Len(call.result) :
         call.result[i] # <<>> => StartsWith(call.result[i], CallPrefix)

\* C6: a call of core.get_url_list with a wildcard pattern, use_cache=True and no
\* cache file returns L after listing the remote; the next call with the same
\* parameters returns exactly L, whatever the listing was (the empty one too).
C6_CacheRoundTrip ==
  [][(/\ IsCoreCall /\ IsWildcard(call.url) /\ call.use_cache /\ ~call.cached
      /\ call.status = "returned"
      /\ call'.fn = "core.get_url_list" /\ call'.url = call.url
      /\ call'.cache_path = call.cache_path /\ call'.use_cache)
     => (call'.status = "returned" /\ call'.result = call.result)]_vars

\* C7: a call of core.get_url_list with a wildcard pattern and use_cache=True that
\* finds a cache file at its cache path makes no fs.glob call, returns the sorted
\* lines of that file and leaves the file alone, whatever the remote would list.
C7_CacheHitNoNetwork ==
  (IsCoreCall /\ IsWildcard(call.url) /\ call.use_cache /\ call.cached)
    => /\ call.status = "returned"
       /\ call.globs = 0
       /\ ~call.wrote
       /\ is_file(files, CallCachePath)
       /\ call.result = sorted(Split(files[CallCachePath], NL))

\* a cache hit that returned two URLs
C7_Witness ==
  /\ IsCoreCall /\ IsWildcard(call.url) /\ call.use_cache /\ call.cached
  /\ call.status = "returned" /\ call.globs = 0
  /\ Len(call.result) = 2

\* C8: a lister call changes the cache files only when use_cache is true and the
\* listing succeeded with at least one URL; in every other case the files are
\* left exactly as they were.
C8_WriteOnlyCachedNonEmpty ==
  [][files' # files
       => (call'.use_cache /\ call'.status = "returned" /\ call'.result # <<>>)]_vars

\* C9: the cache file core.get_url_list has just written holds one URL per line,
\* the lines in ascending order, whatever the order of the remote listing.
C9_CacheFileSorted ==
  (IsCoreCall /\ call.wrote /\ call.result # <<>>)
    => LET lines == Split(files[CallCachePath], NL)
       IN Len(lines) = Len(call.result) /\ IsSorted(lines)

\* C10: download.get_url_list with raise_on_empty=True never returns an empty
\* list; with raise_on_empty=False it never raises ValueError.
C10_RaiseOnEmpty ==
  IsDlCall
    => /\ (call.raise_on_empty /\ call.status = "returned") => call.result # <<>>
       /\ ~call.raise_on_empty => call.exc # "ValueError"

====
